---- MODULE Spec2Model ----
(***************************************************************************)
(* Model of targetcache/cache.go: the cacheMaintainer adapter and the four *)
(* concrete caches it can wrap (functionCache, endpointCache,              *)
(* publisherCache, subscriberCache).  A cacheMaintainer wraps exactly one  *)
(* Cache; the model's receiver c is that cache, and every handler is       *)
(* translated as one atomic step (all map writes of a handler happen       *)
(* between its c.Lock() and the deferred c.Unlock()).                      *)
(***************************************************************************)
EXTENDS Integers, FiniteSets, Sequences, TLC

\* ------------------------------------------------------------------ bounds
NumKeys == 2
NumFunctions == 2
NumTopics == 2
NumValues == 2
\* notifications delivered in one behaviour
MaxCalls == 4
\* goroutines that call into the cache concurrently
NumProcs == 2
\* calls started in one concurrent behaviour
MaxStarts == 2

Keys == 1..NumKeys
FunctionIDs == 1..NumFunctions
TopicIDs == 1..NumTopics
EntityValues == 1..NumValues
Procs == 1..NumProcs

\* ------------------------------------------------------- program constants
Input == "input"
Output == "output"
\* a FunctionEnd that decodes but is neither Input nor Output
Bogus == "bogus"
FunctionEnds == {Input, Output, Bogus}

Kinds == {"functionCache", "endpointCache", "publisherCache", "subscriberCache"}

\* ------------------------------------------------------------------- maps
\* A Go map is a function whose DOMAIN is the set of keys present.
EmptyMap == [x \in {} |-> {}]

MapPut(m, k, x) == [y \in (DOMAIN m) \cup {k} |-> IF y = k THEN x ELSE m[y]]

MapDelete(m, k) == [y \in (DOMAIN m) \ {k} |-> m[y]]

\* --------------------------------------------------------------- payloads
\* The decoded forms of the four entity kinds.
Publishers == [FunctionID : FunctionIDs, TopicID : TopicIDs, FunctionEnd : FunctionEnds]

Subscribers == [TopicID : TopicIDs, FunctionID : FunctionIDs]

Bodies(kind) ==
  CASE kind = "publisherCache" -> Publishers
    [] kind = "subscriberCache" -> Subscribers
    [] OTHER -> EntityValues

\* A payload is a byte string: wf says whether it is well-formed JSON for
\* the entity, body is what its text describes.  Garbage is a byte string
\* that is not JSON.
Garbage == [wf |-> FALSE]

Payloads(kind) == {Garbage} \cup [wf : {TRUE}, body : Bodies(kind)]

\* json.NewDecoder(bytes.NewReader(v)).Decode(&x): err # nil for bytes that
\* are not well-formed, otherwise x is the decoded entity.
Decode(v) == IF v.wf THEN [err |-> FALSE, val |-> v.body] ELSE [err |-> TRUE]

VARIABLES
  c,         \* the wrapped cache: its concrete type and its fields
  lastCall,  \* history: the last call the adapter made into the cache
  rep,       \* history: the last call repeated the call before it
  changed,   \* history: the last call changed a field of the cache
  ncalls,    \* history: number of calls made so far
  live,      \* history: per key, the value of its last completed decodable
             \* Set not followed by a Del
  notif,     \* history: the last notification the adapter received
  subs,      \* history: the (TopicID, FunctionID) pairs whose most recent
             \* decodable subscriber call was a Set
  mu,        \* the cache's sync.RWMutex: its writer (0: none) and its readers
  pc,        \* per goroutine, its position in the call it runs (0: no call)
  arg,       \* per goroutine, the call it runs
  started    \* number of calls started by the goroutines

procVars == <<mu, pc, arg, started>>

historyVars == <<lastCall, rep, changed, ncalls, live, notif, subs>>

vars == <<c, lastCall, rep, changed, ncalls, live, notif, subs, mu, pc, arg, started>>

\* ----------------------------------------------------------- constructors
Struct(kind, nilCache) ==
  [kind |-> kind, nilCache |-> nilCache, cache |-> EmptyMap,
   fnInToTopic |-> EmptyMap, fnOutToTopic |-> EmptyMap,
   topicToFns |-> EmptyMap, panicked |-> FALSE]

newFunctionCache == Struct("functionCache", FALSE)

newEndpointCache == Struct("endpointCache", FALSE)

\* The composite literal sets log, fnInToTopic and fnOutToTopic only: the
\* primary map c.cache keeps its zero value, the nil map.
newPublisherCache == Struct("publisherCache", TRUE)

newSubscriberCache == Struct("subscriberCache", FALSE)

\* --------------------------------------------------------- entity caches
\* functionCache.Set without the else: the zero Function is stored on a
\* decode error.
functionCache_Set_StoreOnError(s, k, v) ==
  LET d == Decode(v) IN
  [s EXCEPT !.cache = MapPut(s.cache, k, IF d.err THEN 0 ELSE d.val)]

functionCache_Set(s, k, v) ==
  LET d == Decode(v) IN
  IF d.err THEN s
  ELSE [s EXCEPT !.cache = MapPut(s.cache, k, d.val)]

functionCache_Del(s, k, v) == [s EXCEPT !.cache = MapDelete(s.cache, k)]

endpointCache_Set(s, k, v) ==
  LET d == Decode(v) IN
  IF d.err THEN s
  ELSE [s EXCEPT !.cache = MapPut(s.cache, k, d.val)]

\* endpointCache.Del that deletes nothing.
endpointCache_Del_NoDelete(s, k, v) == s

endpointCache_Del(s, k, v) == [s EXCEPT !.cache = MapDelete(s.cache, k)]

\* ------------------------------------------------------- publisher cache
\* pubSet, exists := m[fn]; if exists { pubSet[t] = {} } else { m[fn] = {t} }
SetInsert(m, a, b) ==
  IF a \in DOMAIN m THEN [m EXCEPT ![a] = m[a] \cup {b}]
  ELSE MapPut(m, a, {b})

\* SetRemove without the len(set) == 0 cleanup.
SetRemove_NoCleanup(m, a, b) ==
  IF a \in DOMAIN m THEN [m EXCEPT ![a] = m[a] \ {b}] ELSE m

\* SetRemove that tests the length before it deletes the element.
SetRemove_CheckFirst(m, a, b) ==
  IF a \in DOMAIN m
  THEN IF Cardinality(m[a]) = 1 THEN MapDelete(m, a)
       ELSE [m EXCEPT ![a] = m[a] \ {b}]
  ELSE m

\* set, exists := m[a]; if exists { delete(set, b); if len(set) == 0 { delete(m, a) } }
SetRemove(m, a, b) ==
  IF a \in DOMAIN m
  THEN IF m[a] \ {b} = {} THEN MapDelete(m, a)
       ELSE [m EXCEPT ![a] = m[a] \ {b}]
  ELSE m

\* publisherCache.Set whose Output branch writes fnInToTopic.
publisherCache_Set_WrongMap(s, k, v) ==
  LET d == Decode(v) IN
  IF d.err THEN s
  ELSE IF s.nilCache THEN [s EXCEPT !.panicked = TRUE]
  ELSE LET p == d.val
           s1 == [s EXCEPT !.cache = MapPut(s.cache, k, p)] IN
       IF p.FunctionEnd \in {Input, Output}
       THEN [s1 EXCEPT !.fnInToTopic = SetInsert(s.fnInToTopic, p.FunctionID, p.TopicID)]
       ELSE s1

publisherCache_Set(s, k, v) ==
  LET d == Decode(v) IN
  IF d.err THEN s
  ELSE IF s.nilCache
  THEN \* c.cache[pubsub.PublisherID(k)] = p on a nil map: runtime panic,
       \* the deferred Unlock runs, nothing has been written
       [s EXCEPT !.panicked = TRUE]
  ELSE LET p == d.val
           s1 == [s EXCEPT !.cache = MapPut(s.cache, k, p)] IN
       IF p.FunctionEnd = Input
       THEN [s1 EXCEPT !.fnInToTopic = SetInsert(s.fnInToTopic, p.FunctionID, p.TopicID)]
       ELSE IF p.FunctionEnd = Output
       THEN [s1 EXCEPT !.fnOutToTopic = SetInsert(s.fnOutToTopic, p.FunctionID, p.TopicID)]
       ELSE s1

\* publisherCache.Del that retracts the binding of a decodable payload
\* instead of the stored one.
publisherCache_Del_TrustPayload(s, k, v) ==
  IF k \notin DOMAIN s.cache THEN s
  ELSE LET oldProd == IF Decode(v).err THEN s.cache[k] ELSE Decode(v).val IN
       IF oldProd.FunctionEnd = Input
       THEN [s EXCEPT !.fnInToTopic = SetRemove(s.fnInToTopic, oldProd.FunctionID, oldProd.TopicID)]
       ELSE IF oldProd.FunctionEnd = Output
       THEN [s EXCEPT !.fnOutToTopic = SetRemove(s.fnOutToTopic, oldProd.FunctionID, oldProd.TopicID)]
       ELSE s

publisherCache_Del(s, k, v) ==
  IF k \notin DOMAIN s.cache THEN s
  ELSE LET oldProd == s.cache[k] IN
       IF oldProd.FunctionEnd = Input
       THEN [s EXCEPT !.fnInToTopic = SetRemove(s.fnInToTopic, oldProd.FunctionID, oldProd.TopicID)]
       ELSE IF oldProd.FunctionEnd = Output
       THEN [s EXCEPT !.fnOutToTopic = SetRemove(s.fnOutToTopic, oldProd.FunctionID, oldProd.TopicID)]
       ELSE s

\* ------------------------------------------------------ subscriber cache
subscriberCache_Set(s, k, v) ==
  LET d == Decode(v) IN
  IF d.err THEN s
  ELSE [s EXCEPT !.topicToFns = SetInsert(s.topicToFns, d.val.TopicID, d.val.FunctionID)]

\* subscriberCache.Del that drops the whole topic.
subscriberCache_Del_DropTopic(s, k, v) ==
  LET d == Decode(v) IN
  IF d.err THEN s
  ELSE [s EXCEPT !.topicToFns = MapDelete(s.topicToFns, d.val.TopicID)]

subscriberCache_Del(s, k, v) ==
  LET d == Decode(v) IN
  IF d.err THEN s
  ELSE [s EXCEPT !.topicToFns = SetRemove(s.topicToFns, d.val.TopicID, d.val.FunctionID)]

\* ---------------------------------------------------- the Cache interface
Cache_Set(s, k, v) ==
  CASE s.kind = "functionCache" -> functionCache_Set(s, k, v)
    [] s.kind = "endpointCache" -> endpointCache_Set(s, k, v)
    [] s.kind = "publisherCache" -> publisherCache_Set(s, k, v)
    [] s.kind = "subscriberCache" -> subscriberCache_Set(s, k, v)

Cache_Del(s, k, v) ==
  CASE s.kind = "functionCache" -> functionCache_Del(s, k, v)
    [] s.kind = "endpointCache" -> endpointCache_Del(s, k, v)
    [] s.kind = "publisherCache" -> publisherCache_Del(s, k, v)
    [] s.kind = "subscriberCache" -> subscriberCache_Del(s, k, v)

\* ------------------------------------------------------------ the adapter
NoCall == [op |-> "none"]

\* The (TopicID, FunctionID) pair a subscriber payload decodes to.
SubPair(v) == <<v.body.TopicID, v.body.FunctionID>>

CallSet(k, v) ==
  /\ ~c.panicked
  /\ ncalls < MaxCalls
  /\ ncalls' = ncalls + 1
  /\ c' = Cache_Set(c, k, v)
  /\ changed' = (c' # c)
  /\ lastCall' = [op |-> "Set", k |-> k, v |-> v]
  /\ rep' = (lastCall = [op |-> "Set", k |-> k, v |-> v])
  /\ live' = IF Decode(v).err \/ c'.panicked THEN live
           ELSE MapPut(live, k, Decode(v).val)
  /\ subs' = IF c.kind = "subscriberCache" /\ ~Decode(v).err
           THEN subs \cup {SubPair(v)} ELSE subs
  /\ UNCHANGED procVars

CallDel(k, v) ==
  /\ ~c.panicked
  /\ ncalls < MaxCalls
  /\ ncalls' = ncalls + 1
  /\ c' = Cache_Del(c, k, v)
  /\ changed' = (c' # c)
  /\ lastCall' = [op |-> "Del", k |-> k, v |-> v]
  /\ rep' = (lastCall = [op |-> "Del", k |-> k, v |-> v])
  /\ live' = MapDelete(live, k)
  /\ subs' = IF c.kind = "subscriberCache" /\ ~Decode(v).err
           THEN subs \ {SubPair(v)} ELSE subs
  /\ UNCHANGED procVars

Created(key, value) ==
  /\ CallSet(key, value)
  /\ notif' = [n |-> "Created", k |-> key, v |-> value]

\* Modified that delegates to Del.
Modified_CallsDel(key, newValue) ==
  /\ CallDel(key, newValue)
  /\ notif' = [n |-> "Modified", k |-> key, v |-> newValue]

Modified(key, newValue) ==
  /\ CallSet(key, newValue)
  /\ notif' = [n |-> "Modified", k |-> key, v |-> newValue]

Deleted(key, lastKnownValue) ==
  /\ CallDel(key, lastKnownValue)
  /\ notif' = [n |-> "Deleted", k |-> key, v |-> lastKnownValue]

\* --------------------------------------------------------- specifications
InitHistory ==
  /\ lastCall = NoCall
  /\ rep = FALSE
  /\ changed = FALSE
  /\ ncalls = 0
  /\ live = EmptyMap
  /\ notif = [n |-> "none"]
  /\ subs = {}
  /\ mu = [w |-> 0, r |-> {}]
  /\ pc = [p \in Procs |-> 0]
  /\ arg = [p \in Procs |-> NoCall]
  /\ started = 0

\* newCacheMaintainer(cache) over a cache built by its constructor.
Init ==
  /\ c \in {newFunctionCache, newEndpointCache, newPublisherCache, newSubscriberCache}
  /\ InitHistory

Next ==
  \E k \in Keys : \E v \in Payloads(c.kind) :
    \/ Created(k, v)
    \/ Modified(k, v)
    \/ Deleted(k, v)

Spec == Init /\ [][Next]_vars

\* A publisherCache whose primary map is allocated (the field the type
\* declares "to properly delete them later"), so that the statements of
\* publisherCache.Set after the write of c.cache, and the key-present branch
\* of publisherCache.Del, execute.
allocPublisherCache == Struct("publisherCache", FALSE)

\* Every cache of Init, and the publisher cache with an allocated primary map.
InitAlloc ==
  /\ c \in {newFunctionCache, newEndpointCache, newPublisherCache,
            allocPublisherCache, newSubscriberCache}
  /\ InitHistory

SpecAlloc == InitAlloc /\ [][Next]_vars

\* ================================================================= claims
IsPublisher == c.kind = "publisherCache"

IsSubscriber == c.kind = "subscriberCache"

IsEntity == c.kind \in {"functionCache", "endpointCache"}

DecodableSet(call) == call.op = "Set" /\ call.v.wf

\* The (FunctionID, TopicID) pairs of a directional multi-map.
Pairs(m) ==
  {ft \in FunctionIDs \X TopicIDs : ft[1] \in DOMAIN m /\ ft[2] \in m[ft[1]]}

\* The pairs of the primary bindings with a given FunctionEnd.
Bound(end) ==
  {<<c.cache[k].FunctionID, c.cache[k].TopicID>> :
     k \in {j \in DOMAIN c.cache : c.cache[j].FunctionEnd = end}}

C3_SetOverwrite ==
  \A k \in Keys : \A v1, v2 \in Payloads(c.kind) \ {Garbage} :
    Cache_Set(Cache_Set(c, k, v1), k, v2) = Cache_Set(c, k, v2)

\* C4 - Set and Del are total: no call on a cache built by its constructor
\* ends in a panic.
C4_NoPanic == ~c.panicked

\* The multi-maps a cache maintains.
MultiMaps == {c.fnInToTopic, c.fnOutToTopic, c.topicToFns}

\* C5 - empty-set cleanup: every key present in fnInToTopic, fnOutToTopic or
\* topicToFns maps to a non-empty set.
C5_EmptySetCleanup == \A m \in MultiMaps : \A a \in DOMAIN m : m[a] # {}

\* A Del of the subscriber cache has just removed the last function of a
\* topic, and the topic is absent from topicToFns.
C5_Witness ==
  /\ IsSubscriber
  /\ lastCall.op = "Del"
  /\ changed
  /\ lastCall.v.body.TopicID \notin DOMAIN c.topicToFns
  /\ c.topicToFns # EmptyMap

\* C6 - a malformed payload is a no-op: a Set whose payload fails to
\* deserialize leaves every map of the cache as it was.
C6_MalformedNoOp ==
  [][(lastCall'.op = "Set" /\ ~lastCall'.v.wf) => c' = c]_vars

\* An undecodable Set has just run on a key of the function cache that holds
\* a value, and the value is still the one of the last decodable Set.
C6_Witness ==
  /\ c.kind = "functionCache"
  /\ lastCall.op = "Set"
  /\ ~lastCall.v.wf
  /\ lastCall.k \in DOMAIN c.cache
  /\ lastCall.k \in DOMAIN live
  /\ c.cache[lastCall.k] = live[lastCall.k]

\* C7 - deletion of an unknown key is a no-op: a Del of a key that has no
\* completed decodable Set since its last Del leaves every map of the cache
\* as it was, whatever the payload.
C7_DelUnknownNoOp ==
  [][(lastCall'.op = "Del" /\ lastCall'.k \notin DOMAIN live) => c' = c]_vars

C9_IdempotentDel ==
  [][(lastCall.op = "Del" /\ lastCall' = lastCall) => c' = c]_vars

\* The same decodable Del has run twice in a row on a subscriber cache that
\* still holds other subscriptions.
C9_Witness ==
  /\ IsSubscriber
  /\ lastCall.op = "Del"
  /\ lastCall.v.wf
  /\ rep
  /\ ~changed
  /\ c.topicToFns # EmptyMap

\* The entry of key k: absent, or present with a value.
Entry(m, k) == IF k \in DOMAIN m THEN {m[k]} ELSE {}

\* C10 - entity cache lookup: in the function and endpoint caches a key is
\* present with value x exactly when its last call other than an undecodable
\* Set was a Set decoding to x, and absent otherwise; a call on a key leaves
\* the entry of every other key as it was.
C10_EntityLookup ==
  /\ [](IsEntity => c.cache = live)
  /\ [][IsEntity => \A j \in Keys \ {lastCall'.k} :
          Entry(c'.cache, j) = Entry(c.cache, j)]_vars

\* A Del has just removed a key of the function cache while another key
\* keeps its value.
C10_Witness ==
  /\ c.kind = "functionCache"
  /\ lastCall.op = "Del"
  /\ changed
  /\ lastCall.k \notin DOMAIN c.cache
  /\ c.cache # EmptyMap

\* A decodable publisher Set whose FunctionEnd is neither Input nor Output.
InvalidEndSet(call) ==
  /\ call.op = "Set"
  /\ call.v.wf
  /\ call.v.body.FunctionEnd \notin {Input, Output}

\* C11 - invalid directionality tag: a publisher Set that decodes to a binding
\* whose FunctionEnd is neither Input nor Output stores the binding under its
\* key and leaves fnInToTopic and fnOutToTopic as they were; a Del of a key
\* that holds such a binding leaves both multi-maps as they were.
C11_InvalidTag ==
  /\ [][(IsPublisher /\ InvalidEndSet(lastCall')) =>
          /\ lastCall'.k \in DOMAIN c'.cache
          /\ c'.cache[lastCall'.k] = lastCall'.v.body
          /\ c'.fnInToTopic = c.fnInToTopic
          /\ c'.fnOutToTopic = c.fnOutToTopic]_vars
  /\ [][(/\ IsPublisher
         /\ lastCall'.op = "Del"
         /\ lastCall'.k \in DOMAIN c.cache
         /\ c.cache[lastCall'.k].FunctionEnd \notin {Input, Output}) =>
          /\ c'.fnInToTopic = c.fnInToTopic
          /\ c'.fnOutToTopic = c.fnOutToTopic]_vars

\* The effect of one call on a cache.
Apply(s, call) ==
  IF call.op = "Set" THEN Cache_Set(s, call.k, call.v)
  ELSE Cache_Del(s, call.k, call.v)

Calls(k) == [op : {"Set", "Del"}, k : {k}, v : Payloads(c.kind)]

\* C13 - independence of different keys: from every reachable state, two
\* calls addressed to different keys give the same final state in either
\* order.
C13_KeysCommute ==
  \A k1, k2 \in Keys : k1 # k2 =>
    \A a \in Calls(k1) : \A b \in Calls(k2) :
      Apply(Apply(c, a), b) = Apply(Apply(c, b), a)

\* C14 - change adapter: every Created(k, v) and Modified(k, v) makes exactly
\* one call, Set(k, v), and leaves the state Set(k, v) gives; every
\* Deleted(k, v) makes exactly one call, Del(k, v), and leaves the state
\* Del(k, v) gives.
C14_Adapter ==
  [][/\ ncalls' = ncalls + 1
     /\ notif'.n \in {"Created", "Modified"} =>
          /\ lastCall' = [op |-> "Set", k |-> notif'.k, v |-> notif'.v]
          /\ c' = Cache_Set(c, notif'.k, notif'.v)
     /\ notif'.n = "Deleted" =>
          /\ lastCall' = [op |-> "Del", k |-> notif'.k, v |-> notif'.v]
          /\ c' = Cache_Del(c, notif'.k, notif'.v)]_vars

\* A Modified notification has just changed the cache through a Set.
C14_Witness ==
  /\ notif.n = "Modified"
  /\ lastCall.op = "Set"
  /\ changed
  /\ ~c.panicked

\* C15 - publisher Del ignores its payload: a Del(k, v) of the publisher
\* cache leaves the state that Del(k, v2) gives for every other payload v2,
\* and the pair it retracts is that of the binding stored under k.
C15_DelIgnoresPayload ==
  [][(IsPublisher /\ lastCall'.op = "Del") =>
       /\ \A v2 \in Payloads(c.kind) : c' = Cache_Del(c, lastCall'.k, v2)
       /\ lastCall'.k \in DOMAIN c.cache =>
            LET b == c.cache[lastCall'.k]
                gone(end) == IF b.FunctionEnd = end
                             THEN {<<b.FunctionID, b.TopicID>>} ELSE {} IN
            /\ Pairs(c'.fnInToTopic) = Pairs(c.fnInToTopic) \ gone(Input)
            /\ Pairs(c'.fnOutToTopic) = Pairs(c.fnOutToTopic) \ gone(Output)]_vars

\* A publisher Del whose decodable payload differs from the binding stored
\* under its key has just retracted a pair.
C15_Witness ==
  /\ IsPublisher
  /\ lastCall.op = "Del"
  /\ lastCall.v.wf
  /\ changed
  /\ lastCall.k \in DOMAIN c.cache
  /\ c.cache[lastCall.k] # lastCall.v.body

\* The (TopicID, FunctionID) pairs of topicToFns.
SubscriberPairs ==
  {tf \in TopicIDs \X FunctionIDs :
     tf[1] \in DOMAIN c.topicToFns /\ tf[2] \in c.topicToFns[tf[1]]}

\* C16 - subscriber membership: f is in topicToFns[t] exactly when the most
\* recent call whose payload decoded to (t, f) was a Set, whatever the keys;
\* a Del that follows the Set of the same binding on a topic with no other
\* subscriber leaves the topic absent; an undecodable Del and a repeated Set
\* change nothing.
C16_SubscriberMembership ==
  /\ [](IsSubscriber => SubscriberPairs = subs)
  /\ [][(/\ IsSubscriber
         /\ DecodableSet(lastCall)
         /\ lastCall'.op = "Del"
         /\ lastCall'.v = lastCall.v
         /\ c.topicToFns[lastCall.v.body.TopicID] = {lastCall.v.body.FunctionID}) =>
          lastCall.v.body.TopicID \notin DOMAIN c'.topicToFns]_vars
  /\ [][(IsSubscriber /\ lastCall'.op = "Del" /\ ~lastCall'.v.wf) => c' = c]_vars
  /\ [][(IsSubscriber /\ lastCall.op = "Set" /\ lastCall' = lastCall) => c' = c]_vars

\* A Del has just removed a pair that was inserted under another key.
C16_Witness ==
  /\ IsSubscriber
  /\ lastCall.op = "Del"
  /\ lastCall.v.wf
  /\ changed
  /\ SubPair(lastCall.v) \notin subs
  /\ \E j \in DOMAIN live : j # lastCall.k /\ live[j] = lastCall.v.body

\* C19 - direction isolation in the publisher cache: a Set of an Input binding
\* leaves fnOutToTopic as it was and one of an Output binding leaves
\* fnInToTopic as it was; a Del changes only the multi-map of the stored
\* binding's FunctionEnd; neither changes the entry of another FunctionID.
C19_DirectionIsolation ==
  [][IsPublisher =>
       /\ DecodableSet(lastCall') =>
            LET b == lastCall'.v.body IN
            /\ b.FunctionEnd = Input => c'.fnOutToTopic = c.fnOutToTopic
            /\ b.FunctionEnd = Output => c'.fnInToTopic = c.fnInToTopic
            /\ \A g \in FunctionIDs \ {b.FunctionID} :
                 /\ Entry(c'.fnInToTopic, g) = Entry(c.fnInToTopic, g)
                 /\ Entry(c'.fnOutToTopic, g) = Entry(c.fnOutToTopic, g)
       /\ (lastCall'.op = "Del" /\ lastCall'.k \in DOMAIN c.cache) =>
            LET b == c.cache[lastCall'.k] IN
            /\ b.FunctionEnd # Input => c'.fnInToTopic = c.fnInToTopic
            /\ b.FunctionEnd # Output => c'.fnOutToTopic = c.fnOutToTopic
            /\ \A g \in FunctionIDs \ {b.FunctionID} :
                 /\ Entry(c'.fnInToTopic, g) = Entry(c.fnInToTopic, g)
                 /\ Entry(c'.fnOutToTopic, g) = Entry(c.fnOutToTopic, g)]_vars

\* A Del of an Input binding has just changed fnInToTopic while fnOutToTopic
\* and the input topics of another function are populated.
C19_Witness ==
  /\ IsPublisher
  /\ lastCall.op = "Del"
  /\ changed
  /\ c.cache[lastCall.k].FunctionEnd = Input
  /\ c.fnOutToTopic # EmptyMap
  /\ \E g \in DOMAIN c.fnInToTopic : g # c.cache[lastCall.k].FunctionID

\* ===================================================== concurrent callers
\* Goroutines call Set, Del and the read accessors of one cache; each
\* statement that takes or releases the lock, decodes, or writes a map is
\* one step.

\* publisherCache.Set, line 145 alone: the write of the primary map.
publisherCache_Set_primary(s, k, v) ==
  IF s.nilCache THEN [s EXCEPT !.panicked = TRUE]
  ELSE [s EXCEPT !.cache = MapPut(s.cache, k, Decode(v).val)]

\* publisherCache.Set that unlocks right after the primary write instead
\* of deferring the Unlock.
Flow_UnlockEarly(kind, op) ==
  CASE op = "Get" -> <<"rlock", "read", "runlock">>
    [] op = "Set" /\ kind = "publisherCache" ->
         <<"decode", "lock", "primary", "unlock", "index">>
    [] op = "Set" /\ kind = "subscriberCache" -> <<"decode", "lock", "index", "unlock">>
    [] op = "Set" -> <<"decode", "lock", "primary", "unlock">>
    [] op = "Del" /\ kind = "publisherCache" -> <<"lock", "index", "unlock">>
    [] op = "Del" /\ kind = "subscriberCache" -> <<"lock", "decode", "index", "unlock">>
    [] op = "Del" -> <<"lock", "primary", "unlock">>

\* The statements of each handler in program order: "decode" is the json
\* Decode, "lock" is c.Lock(), "primary" writes c.cache, "index" reads the
\* stored binding and writes a multi-map, "unlock" is the deferred
\* c.Unlock() that runs when the handler returns.  A read accessor takes
\* the shared lock around its lookup.
Flow(kind, op) ==
  CASE op = "Get" -> <<"rlock", "read", "runlock">>
    [] op = "Set" /\ kind = "publisherCache" ->
         <<"decode", "lock", "primary", "index", "unlock">>
    [] op = "Set" /\ kind = "subscriberCache" -> <<"decode", "lock", "index", "unlock">>
    [] op = "Set" -> <<"decode", "lock", "primary", "unlock">>
    [] op = "Del" /\ kind = "publisherCache" -> <<"lock", "index", "unlock">>
    [] op = "Del" /\ kind = "subscriberCache" -> <<"lock", "decode", "index", "unlock">>
    [] op = "Del" -> <<"lock", "primary", "unlock">>

\* The statement goroutine p is about to execute.
Label(p) == IF pc[p] = 0 THEN "idle" ELSE Flow(c.kind, arg[p].op)[pc[p]]

\* After its last statement the handler has returned.
Advance(p) ==
  pc' = [pc EXCEPT ![p] = IF pc[p] = Len(Flow(c.kind, arg[p].op)) THEN 0 ELSE pc[p] + 1]

\* A return statement: the deferred Unlock runs if the lock was taken.
Return(p) ==
  pc' = [pc EXCEPT ![p] = IF mu.w = p THEN Len(Flow(c.kind, arg[p].op)) ELSE 0]

ProcCalls ==
  {[op |-> "Get"]} \cup [op : {"Set", "Del"}, k : Keys, v : Payloads(c.kind)]

Start(p) ==
  /\ ~c.panicked
  /\ pc[p] = 0
  /\ started < MaxStarts
  /\ \E call \in ProcCalls : arg' = [arg EXCEPT ![p] = call]
  /\ pc' = [pc EXCEPT ![p] = 1]
  /\ started' = started + 1
  /\ UNCHANGED <<c, mu, historyVars>>

DecodeStep(p) ==
  /\ ~c.panicked
  /\ Label(p) = "decode"
  /\ IF Decode(arg[p].v).err THEN Return(p) ELSE Advance(p)
  /\ UNCHANGED <<c, mu, arg, started, historyVars>>

\* c.Lock(): waits until no writer and no reader holds the lock.
LockStep(p) ==
  /\ ~c.panicked
  /\ Label(p) = "lock"
  /\ mu.w = 0
  /\ mu.r = {}
  /\ mu' = [mu EXCEPT !.w = p]
  /\ Advance(p)
  /\ UNCHANGED <<c, arg, started, historyVars>>

\* The write of c.cache.  On the nil map of the publisher cache it panics:
\* the deferred Unlock runs and the process aborts.
PrimaryStep(p) ==
  /\ ~c.panicked
  /\ Label(p) = "primary"
  /\ c' = IF c.kind = "publisherCache"
          THEN publisherCache_Set_primary(c, arg[p].k, arg[p].v)
          ELSE Apply(c, arg[p])
  /\ IF c'.panicked
     THEN /\ mu' = [mu EXCEPT !.w = IF mu.w = p THEN 0 ELSE mu.w]
          /\ UNCHANGED pc
     ELSE /\ Advance(p)
          /\ UNCHANGED mu
  /\ UNCHANGED <<arg, started, historyVars>>

\* The write of a multi-map.
IndexStep(p) ==
  /\ ~c.panicked
  /\ Label(p) = "index"
  /\ c' = Apply(c, arg[p])
  /\ Advance(p)
  /\ UNCHANGED <<mu, arg, started, historyVars>>

UnlockStep(p) ==
  /\ ~c.panicked
  /\ Label(p) = "unlock"
  /\ mu' = [mu EXCEPT !.w = IF mu.w = p THEN 0 ELSE mu.w]
  /\ Advance(p)
  /\ UNCHANGED <<c, arg, started, historyVars>>

\* c.RLock(): waits until no writer holds the lock.
RLockStep(p) ==
  /\ ~c.panicked
  /\ Label(p) = "rlock"
  /\ mu.w = 0
  /\ mu' = [mu EXCEPT !.r = mu.r \cup {p}]
  /\ Advance(p)
  /\ UNCHANGED <<c, arg, started, historyVars>>

ReadStep(p) ==
  /\ ~c.panicked
  /\ Label(p) = "read"
  /\ Advance(p)
  /\ UNCHANGED <<c, mu, arg, started, historyVars>>

RUnlockStep(p) ==
  /\ ~c.panicked
  /\ Label(p) = "runlock"
  /\ mu' = [mu EXCEPT !.r = mu.r \ {p}]
  /\ Advance(p)
  /\ UNCHANGED <<c, arg, started, historyVars>>

\* A step of the call goroutine p runs.
Run(p) ==
  \/ DecodeStep(p)
  \/ LockStep(p)
  \/ PrimaryStep(p)
  \/ IndexStep(p)
  \/ UnlockStep(p)
  \/ RLockStep(p)
  \/ ReadStep(p)
  \/ RUnlockStep(p)

NextConc == \E p \in Procs : Start(p) \/ Run(p)

SpecConc == InitAlloc /\ [][NextConc]_vars

\* The Go scheduler runs every runnable goroutine, and the lock is granted
\* to every goroutine that waits for it.
FairSpecConc ==
  /\ SpecConc
  /\ \A p \in Procs : WF_vars(Run(p)) /\ SF_vars(LockStep(p)) /\ SF_vars(RLockStep(p))

\* The position of a statement in a handler.
Pos(flow, label) == CHOOSE i \in 1..Len(flow) : flow[i] = label

Has(flow, label) == \E i \in 1..Len(flow) : flow[i] = label

\* Goroutine p has executed statement `after' of its call and not yet
\* statement `upto'.
Between(p, after, upto) ==
  LET flow == Flow(c.kind, arg[p].op) IN
  /\ ~c.panicked
  /\ pc[p] > 0
  /\ Has(flow, after)
  /\ Has(flow, upto)
  /\ Pos(flow, after) < pc[p]
  /\ pc[p] <= Pos(flow, upto)

\* p is between its c.Lock() and its deferred c.Unlock().
InSection(p) == Between(p, "lock", "unlock")

\* p is between its c.RLock() and its c.RUnlock().
Reading(p) == Between(p, "rlock", "runlock")

\* p has written the primary map of a publisher Set and not yet the
\* multi-map.
Torn(p) == Between(p, "primary", "index")

\* C12 - writer atomicity: at most one Set or Del is inside its
\* lock-protected section, no reader holding the shared lock overlaps a
\* writer, and whenever no writer holds the lock no publisher Set is between
\* its primary-map update and its multi-map update.
C12_WriterAtomicity ==
  /\ \A p \in Procs : InSection(p) => mu.w = p
  /\ Cardinality({p \in Procs : InSection(p)}) <= 1
  /\ \A p \in Procs : Reading(p) => (p \in mu.r /\ mu.w = 0)
  /\ (\E p \in Procs : Reading(p)) => \A q \in Procs : ~InSection(q)
  /\ mu.w = 0 => \A p \in Procs : ~Torn(p)

\* A publisher Set has written the primary map and not yet the multi-map
\* while another goroutine waits for the lock it holds.
C12_Witness ==
  /\ \E p \in Procs : Torn(p) /\ mu.w = p
  /\ \E q \in Procs : Label(q) \in {"lock", "rlock"}

\* C17 - deserialization precedes locking: no goroutine decodes a payload
\* while it holds the cache's write lock.
C17_DecodeBeforeLock == \A p \in Procs : Label(p) = "decode" => mu.w # p

\* C18 - deadlock freedom and completion: when no call is running the lock
\* is free, and under fair scheduling every started call eventually returns.
C18_Completion ==
  /\ []((\A p \in Procs : pc[p] = 0) => (mu.w = 0 /\ mu.r = {}))
  /\ \A p \in Procs : (pc[p] # 0) ~> (pc[p] = 0)

====
